---- MODULE Spec2Model ----
(***************************************************************************)
(* Beacon-proxy analyzer of pkg/beaconproxy/analyzer.go: the worker pool   *)
(* (start / collect / close), the pair scorer and the host-max reconciler  *)
(* (hostBeaconQuery) together with the hosts collection it reads and the   *)
(* writer that applies the emitted updates.                                *)
(*                                                                         *)
(* Scores are kept in thousandths (0.9 is 900); the float expression       *)
(* ceil((sum/3)*1000)/1000 is evaluated with exact rational arithmetic.    *)
(***************************************************************************)
EXTENDS Integers, Sequences, FiniteSets, TLC

\* ------------------------------------------------------------------ bounds
MaxWorkers    == 2   \* start() calls per analyzer
MaxClosers    == 2   \* close() calls per analyzer (Spec)
MaxRecords    == 2   \* collect() calls (Spec)
MaxRuns       == 3   \* analyzers constructed one after another (SpecRuns)
MaxRunRecords == 4   \* collect() calls over all analyzers (SpecRuns)
MaxSeqRuns    == 2   \* analyzers constructed one after another (SpecSeq)
MaxSeqRecords == 3   \* collect() calls over all analyzers (SpecSeq)
MaxDeltas     == 5   \* deltas of a generated TsList (SpecKernel)
MaxPermLen    == 4   \* timestamps of a TsList that is rearranged (SpecKernel)
MaxRaceRuns   == 2   \* analyzers constructed one after another (SpecRace)
MaxRaceRecords == 3  \* collect() calls over all analyzers (SpecRace)

Workers == 1..MaxWorkers
Closers == 1..MaxClosers

\* ------------------------------------------------------------ input space
Srcs    == {"h1"}
Fqdns   == {"f1", "f2"}
Chunks  == {0, 1}
Windows == {[tsMin |-> 0, tsMax |-> 36000]}

\* the part of uconnproxy.Input besides the pair key
Payloads ==
  { [ConnectionCount |-> 50000, TsNil |-> TRUE,  TsList |-> <<>>],
    [ConnectionCount |-> 2519,  TsNil |-> FALSE, TsList |-> <<0, 60, 120, 180>>],
    [ConnectionCount |-> 1799,  TsNil |-> FALSE, TsList |-> <<0, 10, 60, 150>>],
    [ConnectionCount |-> 719,   TsNil |-> FALSE, TsList |-> <<0, 10, 60, 150>>] }

Inputs ==
  { [Hosts |-> [src |-> s, FQDN |-> f], Proxy |-> "p1",
     ConnectionCount |-> p.ConnectionCount, TsNil |-> p.TsNil, TsList |-> p.TsList]
      : s \in Srcs, f \in Fqdns, p \in Payloads }

NoEntry == [id |-> 0]
NoInfo  == [query |-> [op |-> "nil"], selector |-> [t |-> "nil"]]   \* updateInfo{}

\* ------------------------------------------------------ statistics kernel
Abs(x) == IF x < 0 THEN -x ELSE x

Min2(a, b) == IF a < b THEN a ELSE b

Max2(a, b) == IF a > b THEN a ELSE b

RECURSIVE Gcd(_, _)
Gcd(a, b) == IF b = 0 THEN a ELSE Gcd(b, a % b)

\* a rational <<numerator, denominator>> (denominator > 0) in lowest terms;
\* the argument is bound to v so that it is evaluated once
Norm(r) ==
  CHOOSE n \in {<<v[1] \div Gcd(Abs(v[1]), v[2]), v[2] \div Gcd(Abs(v[1]), v[2])>> :
                  v \in {r}} : TRUE

RAdd(r, t) ==
  CHOOSE n \in {Norm(<<a[1] * b[2] + b[1] * a[2], a[2] * b[2]>>) :
                  a \in {r}, b \in {t}} : TRUE

\* math.Floor for math.Ceil
FloorThousandthsOfThird(r) ==
  CHOOSE n \in {(1000 * v[1]) \div (3 * v[2]) : v \in {r}} : TRUE

\* ceil(1000 * r / 3) for a rational r >= 0
CeilThousandthsOfThird(r) ==
  CHOOSE n \in {(1000 * v[1] + 3 * v[2] - 1) \div (3 * v[2]) : v \in {r}} : TRUE

RECURSIVE Insert(_, _)
Insert(x, s) ==
  IF s = <<>> THEN <<x>>
  ELSE IF x <= Head(s) THEN <<x>> \o s
  ELSE <<Head(s)>> \o Insert(x, Tail(s))

RECURSIVE SortInt64(_)
SortInt64(s) == IF s = <<>> THEN <<>> ELSE Insert(Head(s), SortInt64(Tail(s)))

\* util.Round(p * k) for p = num/4, k >= 0: round half away from zero
RoundQ(num, k) == (num * k + 2) \div 4

\* diff without sort.Sort
DiffUnsorted(ts) == [i \in 1..(Len(ts) - 1) |-> ts[i + 1] - ts[i]]

\* diff[i] = TsList[i+1] - TsList[i], then sorted
Diff(ts) == SortInt64([i \in 1..(Len(ts) - 1) |-> ts[i + 1] - ts[i]])

RECURSIVE countOnlyOnChange(_)
\* countAndRemoveConsecutiveDuplicates with counts[last]++ inside the test
\* "last != numberList[idx]"
countOnlyOnChange(numberList) ==
  IF Len(numberList) = 1
    THEN << <<numberList[1]>>, [v \in {numberList[1]} |-> 1] >>
    ELSE LET n    == Len(numberList)
             pre  == countOnlyOnChange(SubSeq(numberList, 1, n - 1))
             x    == numberList[n]
             last == numberList[n - 1]
             res  == IF last # x THEN Append(pre[1], x) ELSE pre[1]
             old  == pre[2]
             cnt  == [v \in DOMAIN old \cup {x} |->
                        (IF v \in DOMAIN old THEN old[v] ELSE 0)
                          + (IF v = x /\ last # x THEN 1 ELSE 0)]
         IN  <<res, cnt>>

RECURSIVE countAndRemoveConsecutiveDuplicates(_)
\* <<distinct, counts>>: the values without consecutive repeats, and the map
\* value -> number of occurrences anywhere in the list
countAndRemoveConsecutiveDuplicates(numberList) ==
  IF Len(numberList) = 1
    THEN << <<numberList[1]>>, [v \in {numberList[1]} |-> 1] >>
    ELSE LET n    == Len(numberList)
             pre  == countAndRemoveConsecutiveDuplicates(SubSeq(numberList, 1, n - 1))
             x    == numberList[n]
             last == numberList[n - 1]
             res  == IF last # x THEN Append(pre[1], x) ELSE pre[1]
             old  == pre[2]
             cnt  == [v \in DOMAIN old \cup {x} |->
                        (IF v \in DOMAIN old THEN old[v] ELSE 0) + (IF v = x THEN 1 ELSE 0)]
         IN  <<res, cnt>>

RECURSIVE ModeScanLastWins(_, _, _, _, _)
\* the loop of createCountMap with "count >= max"
ModeScanLastWins(distinct, countsMap, i, mode, max) ==
  IF i > Len(distinct) THEN <<mode, max>>
  ELSE LET count == countsMap[distinct[i]]
       IN  IF count >= max
             THEN ModeScanLastWins(distinct, countsMap, i + 1, distinct[i], count)
             ELSE ModeScanLastWins(distinct, countsMap, i + 1, mode, max)

RECURSIVE ModeScan(_, _, _, _, _)
\* the loop of createCountMap from index i on, carrying (mode, max)
ModeScan(distinct, countsMap, i, mode, max) ==
  IF i > Len(distinct) THEN <<mode, max>>
  ELSE LET count == countsMap[distinct[i]]
       IN  IF count > max
             THEN ModeScan(distinct, countsMap, i + 1, distinct[i], count)
             ELSE ModeScan(distinct, countsMap, i + 1, mode, max)

\* <<intervals, intervalCounts, mode, modeCount>>
createCountMap(sortedIn) ==
  LET dc        == countAndRemoveConsecutiveDuplicates(sortedIn)
      distinct  == dc[1]
      countsMap == dc[2]
      countsArr == [i \in 1..Len(distinct) |-> countsMap[distinct[i]]]
      mm        == ModeScan(distinct, countsMap, 1, distinct[1], countsMap[distinct[1]])
  IN  <<distinct, countsArr, mm[1], mm[2]>>

\* the scoring block without the cap of tsConnCountScore at 1.0
AnalyzeNoConnCap(entry, min, max) ==
  LET diff     == Diff(entry.TsList)
      tsLength == Len(entry.TsList) - 1
      tsLow    == diff[RoundQ(1, tsLength - 1) + 1]
      tsMid    == diff[RoundQ(2, tsLength - 1) + 1]
      tsHigh   == diff[RoundQ(3, tsLength - 1) + 1]
      tsBowleyNum == tsLow + tsHigh - 2 * tsMid
      tsBowleyDen == tsHigh - tsLow
      skewed   == tsBowleyDen # 0 /\ tsMid # tsLow /\ tsMid # tsHigh
      tsSkew   == IF skewed THEN <<tsBowleyNum, tsBowleyDen>> ELSE <<0, 1>>
      devs     == SortInt64([i \in 1..tsLength |-> Abs(diff[i] - tsMid)])
      tsMadm   == devs[RoundQ(2, tsLength - 1) + 1]
      cm       == createCountMap(diff)
      \* tsSkewScore = 1 - |tsSkew|
      skewS    == Norm(<<Abs(tsSkew[2]) - Abs(tsSkew[1]), Abs(tsSkew[2])>>)
      \* tsMadmScore = max(0, 1 - tsMadm/30)
      madmS    == Norm(<<Max2(0, 30 - tsMadm), 30>>)
      \* tsConnCountScore = min(1, ConnectionCount / ((tsMax - tsMin)/10))
      connS    == Norm(<<10 * entry.ConnectionCount, max - min>>)
      tsSum    == RAdd(RAdd(skewS, madmS), connS)
      \* ceil((tsSum / 3) * 1000), in thousandths
      score    == CeilThousandthsOfThird(tsSum)
  IN  [range |-> diff[tsLength] - diff[1], mode |-> cm[3], mode_count |-> cm[4],
       intervals |-> cm[1], interval_counts |-> cm[2], dispersion |-> tsMadm,
       skew |-> tsSkew, conns_score |-> connS, score |-> score]

\* the scoring block with tsIntervalRange taken before diff is sorted
AnalyzeRangeBeforeSort(entry, min, max) ==
  LET diff     == Diff(entry.TsList)
      raw      == [i \in 1..(Len(entry.TsList) - 1) |-> entry.TsList[i + 1] - entry.TsList[i]]
      tsLength == Len(entry.TsList) - 1
      tsLow    == diff[RoundQ(1, tsLength - 1) + 1]
      tsMid    == diff[RoundQ(2, tsLength - 1) + 1]
      tsHigh   == diff[RoundQ(3, tsLength - 1) + 1]
      tsBowleyNum == tsLow + tsHigh - 2 * tsMid
      tsBowleyDen == tsHigh - tsLow
      skewed   == tsBowleyDen # 0 /\ tsMid # tsLow /\ tsMid # tsHigh
      tsSkew   == IF skewed THEN <<tsBowleyNum, tsBowleyDen>> ELSE <<0, 1>>
      devs     == SortInt64([i \in 1..tsLength |-> Abs(diff[i] - tsMid)])
      tsMadm   == devs[RoundQ(2, tsLength - 1) + 1]
      cm       == createCountMap(diff)
      \* tsSkewScore = 1 - |tsSkew|
      skewS    == Norm(<<Abs(tsSkew[2]) - Abs(tsSkew[1]), Abs(tsSkew[2])>>)
      \* tsMadmScore = max(0, 1 - tsMadm/30)
      madmS    == Norm(<<Max2(0, 30 - tsMadm), 30>>)
      \* tsConnCountScore = min(1, ConnectionCount / ((tsMax - tsMin)/10))
      connS    == Norm(<<Min2(10 * entry.ConnectionCount, max - min), max - min>>)
      tsSum    == RAdd(RAdd(skewS, madmS), connS)
      \* ceil((tsSum / 3) * 1000), in thousandths
      score    == CeilThousandthsOfThird(tsSum)
  IN  [range |-> raw[tsLength] - raw[1], mode |-> cm[3], mode_count |-> cm[4],
       intervals |-> cm[1], interval_counts |-> cm[2], dispersion |-> tsMadm,
       skew |-> tsSkew, conns_score |-> connS, score |-> score]

\* the scoring block with tsMadmScore = tsMadm/30 for 1 - tsMadm/30
AnalyzeMadmNotInverted(entry, min, max) ==
  LET diff     == Diff(entry.TsList)
      tsLength == Len(entry.TsList) - 1
      tsLow    == diff[RoundQ(1, tsLength - 1) + 1]
      tsMid    == diff[RoundQ(2, tsLength - 1) + 1]
      tsHigh   == diff[RoundQ(3, tsLength - 1) + 1]
      tsBowleyNum == tsLow + tsHigh - 2 * tsMid
      tsBowleyDen == tsHigh - tsLow
      skewed   == tsBowleyDen # 0 /\ tsMid # tsLow /\ tsMid # tsHigh
      tsSkew   == IF skewed THEN <<tsBowleyNum, tsBowleyDen>> ELSE <<0, 1>>
      devs     == SortInt64([i \in 1..tsLength |-> Abs(diff[i] - tsMid)])
      tsMadm   == devs[RoundQ(2, tsLength - 1) + 1]
      cm       == createCountMap(diff)
      \* tsSkewScore = 1 - |tsSkew|
      skewS    == Norm(<<Abs(tsSkew[2]) - Abs(tsSkew[1]), Abs(tsSkew[2])>>)
      \* tsMadmScore = max(0, 1 - tsMadm/30)
      madmS    == Norm(<<Max2(0, tsMadm), 30>>)
      \* tsConnCountScore = min(1, ConnectionCount / ((tsMax - tsMin)/10))
      connS    == Norm(<<Min2(10 * entry.ConnectionCount, max - min), max - min>>)
      tsSum    == RAdd(RAdd(skewS, madmS), connS)
      \* ceil((tsSum / 3) * 1000), in thousandths
      score    == CeilThousandthsOfThird(tsSum)
  IN  [range |-> diff[tsLength] - diff[1], mode |-> cm[3], mode_count |-> cm[4],
       intervals |-> cm[1], interval_counts |-> cm[2], dispersion |-> tsMadm,
       skew |-> tsSkew, conns_score |-> connS, score |-> score]

\* the scoring block of the worker loop; rationals are <<numerator, denominator>>
Analyze(entry, min, max) ==
  LET diff     == Diff(entry.TsList)
      tsLength == Len(entry.TsList) - 1
      tsLow    == diff[RoundQ(1, tsLength - 1) + 1]
      tsMid    == diff[RoundQ(2, tsLength - 1) + 1]
      tsHigh   == diff[RoundQ(3, tsLength - 1) + 1]
      tsBowleyNum == tsLow + tsHigh - 2 * tsMid
      tsBowleyDen == tsHigh - tsLow
      skewed   == tsBowleyDen # 0 /\ tsMid # tsLow /\ tsMid # tsHigh
      tsSkew   == IF skewed THEN <<tsBowleyNum, tsBowleyDen>> ELSE <<0, 1>>
      devs     == SortInt64([i \in 1..tsLength |-> Abs(diff[i] - tsMid)])
      tsMadm   == devs[RoundQ(2, tsLength - 1) + 1]
      cm       == createCountMap(diff)
      \* tsSkewScore = 1 - |tsSkew|
      skewS    == Norm(<<Abs(tsSkew[2]) - Abs(tsSkew[1]), Abs(tsSkew[2])>>)
      \* tsMadmScore = max(0, 1 - tsMadm/30)
      madmS    == Norm(<<Max2(0, 30 - tsMadm), 30>>)
      \* tsConnCountScore = min(1, ConnectionCount / ((tsMax - tsMin)/10))
      connS    == Norm(<<Min2(10 * entry.ConnectionCount, max - min), max - min>>)
      tsSum    == RAdd(RAdd(skewS, madmS), connS)
      \* ceil((tsSum / 3) * 1000), in thousandths
      score    == CeilThousandthsOfThird(tsSum)
  IN  [range |-> diff[tsLength] - diff[1], mode |-> cm[3], mode_count |-> cm[4],
       intervals |-> cm[1], interval_counts |-> cm[2], dispersion |-> tsMadm,
       skew |-> tsSkew, conns_score |-> connS, score |-> score]

Score(entry, min, max) == Analyze(entry, min, max).score

\* --------------------------------------------------------- hosts collection
\* a dat element is [cid, mbproxy, max_beacon_proxy_score]

\* Find({src, "dat.mbproxy": fqdn}).Count()
ExactMatches(d, fqdn) ==
  IF \E i \in 1..Len(d) : d[i].mbproxy = fqdn THEN 1 ELSE 0

\* the lower-match query with $lt for $lte
LowerMatchesStrict(d, cid, score) ==
  IF \E i \in 1..Len(d) : d[i].cid = cid /\ d[i].max_beacon_proxy_score < score
    THEN 1 ELSE 0

\* Find({src, dat: {$elemMatch: {cid: chunk, max_beacon_proxy_score: {$lte: score}}}}).Count()
LowerMatches(d, cid, score) ==
  IF \E i \in 1..Len(d) : d[i].cid = cid /\ d[i].max_beacon_proxy_score <= score
    THEN 1 ELSE 0

\* Find({src, dat: {$elemMatch: {cid: chunk, max_beacon_proxy_score: {$gte: score}}}}).Count()
UpperMatches(d, cid, score) ==
  IF \E i \in 1..Len(d) : d[i].cid = cid /\ d[i].max_beacon_proxy_score >= score
    THEN 1 ELSE 0

\* the $set / $push document written by hostBeaconQuery
DatElem(score, fqdn, cid) ==
  [max_beacon_proxy_score |-> score, mbproxy |-> fqdn, cid |-> cid]

\* the outcome of one counted query: not issued, failed, or a count
NotIssued  == [st |-> "none", n |-> 0]

Failed     == [st |-> "err", n |-> 0]

Counted(n) == [st |-> "ok", n |-> n]

NoQueries  == [exact |-> NotIssued, lower |-> NotIssued, upper |-> NotIssued]

\* hostBeaconQuery that appends a new element on an exact match
hostBeaconQueryExactPushes(res, score, src, fqdn, cid) ==
  IF res.exact.st = "err" THEN NoInfo
  ELSE IF res.exact.n > 0
    THEN [query    |-> [op |-> "$push", elem |-> DatElem(score, fqdn, cid)],
          selector |-> [t |-> "src", src |-> src]]
  ELSE IF res.lower.st = "err" THEN NoInfo
  ELSE IF res.lower.n = 0
    THEN IF res.upper.st = "err" THEN NoInfo
         ELSE IF res.upper.n = 0
           THEN [query    |-> [op |-> "$push", elem |-> DatElem(score, fqdn, cid)],
                 selector |-> [t |-> "src", src |-> src]]
           ELSE NoInfo
  ELSE [query    |-> [op |-> "$set", elem |-> DatElem(score, fqdn, cid)],
        selector |-> [t |-> "lower", src |-> src, cid |-> cid, lte |-> score]]

\* hostBeaconQuery that sets newFlag whenever no lower match is found
hostBeaconQueryNoUpperCheck(res, score, src, fqdn, cid) ==
  IF res.exact.st = "err" THEN NoInfo
  ELSE IF res.exact.n > 0
    THEN [query    |-> [op |-> "$set", elem |-> DatElem(score, fqdn, cid)],
          selector |-> [t |-> "exact", src |-> src, mbproxy |-> fqdn]]
  ELSE IF res.lower.st = "err" THEN NoInfo
  ELSE IF res.lower.n = 0
    THEN IF res.upper.st = "err" THEN NoInfo
         ELSE [query    |-> [op |-> "$push", elem |-> DatElem(score, fqdn, cid)],
               selector |-> [t |-> "src", src |-> src]]
  ELSE [query    |-> [op |-> "$set", elem |-> DatElem(score, fqdn, cid)],
        selector |-> [t |-> "lower", src |-> src, cid |-> cid, lte |-> score]]

\* hostBeaconQuery with newFlag and updateFlag taken for one another
hostBeaconQueryFlagsSwapped(res, score, src, fqdn, cid) ==
  IF res.exact.st = "err" THEN NoInfo
  ELSE IF res.exact.n > 0
    THEN [query    |-> [op |-> "$set", elem |-> DatElem(score, fqdn, cid)],
          selector |-> [t |-> "exact", src |-> src, mbproxy |-> fqdn]]
  ELSE IF res.lower.st = "err" THEN NoInfo
  ELSE IF res.lower.n = 0
    THEN IF res.upper.st = "err" THEN NoInfo
         ELSE IF res.upper.n = 0
           THEN [query    |-> [op |-> "$set", elem |-> DatElem(score, fqdn, cid)],
                 selector |-> [t |-> "lower", src |-> src, cid |-> cid, lte |-> score]]
           ELSE NoInfo
  ELSE [query    |-> [op |-> "$push", elem |-> DatElem(score, fqdn, cid)],
        selector |-> [t |-> "src", src |-> src]]

\* hostBeaconQuery pushing a new element when a lower match exists instead of
\* replacing the matched one
hostBeaconQueryLowerPushes(res, score, src, fqdn, cid) ==
  IF res.exact.st = "err" THEN NoInfo
  ELSE IF res.exact.n > 0
    THEN [query    |-> [op |-> "$set", elem |-> DatElem(score, fqdn, cid)],
          selector |-> [t |-> "exact", src |-> src, mbproxy |-> fqdn]]
  ELSE IF res.lower.st = "err" THEN NoInfo
  ELSE IF res.lower.n = 0
    THEN IF res.upper.st = "err" THEN NoInfo
         ELSE IF res.upper.n = 0
           THEN [query    |-> [op |-> "$push", elem |-> DatElem(score, fqdn, cid)],
                 selector |-> [t |-> "src", src |-> src]]
           ELSE NoInfo
  ELSE [query    |-> [op |-> "$push", elem |-> DatElem(score, fqdn, cid)],
        selector |-> [t |-> "src", src |-> src]]

\* hostBeaconQuery whose replace-lower selector keeps the chunk condition only
\* (1000 is the highest score there is)
hostBeaconQueryLowerSelectorNoScore(res, score, src, fqdn, cid) ==
  IF res.exact.st = "err" THEN NoInfo
  ELSE IF res.exact.n > 0
    THEN [query    |-> [op |-> "$set", elem |-> DatElem(score, fqdn, cid)],
          selector |-> [t |-> "exact", src |-> src, mbproxy |-> fqdn]]
  ELSE IF res.lower.st = "err" THEN NoInfo
  ELSE IF res.lower.n = 0
    THEN IF res.upper.st = "err" THEN NoInfo
         ELSE IF res.upper.n = 0
           THEN [query    |-> [op |-> "$push", elem |-> DatElem(score, fqdn, cid)],
                 selector |-> [t |-> "src", src |-> src]]
           ELSE NoInfo
  ELSE [query    |-> [op |-> "$set", elem |-> DatElem(score, fqdn, cid)],
        selector |-> [t |-> "lower", src |-> src, cid |-> cid, lte |-> 1000]]

\* hostBeaconQuery going on after a failed lower-match query instead of returning
hostBeaconQueryNoReturnOnErr(res, score, src, fqdn, cid) ==
  IF res.exact.st = "err" THEN NoInfo
  ELSE IF res.exact.n > 0
    THEN [query    |-> [op |-> "$set", elem |-> DatElem(score, fqdn, cid)],
          selector |-> [t |-> "exact", src |-> src, mbproxy |-> fqdn]]
  ELSE IF res.lower.n = 0
    THEN IF res.upper.n = 0
           THEN [query    |-> [op |-> "$push", elem |-> DatElem(score, fqdn, cid)],
                 selector |-> [t |-> "src", src |-> src]]
           ELSE NoInfo
  ELSE [query    |-> [op |-> "$set", elem |-> DatElem(score, fqdn, cid)],
        selector |-> [t |-> "lower", src |-> src, cid |-> cid, lte |-> score]]

\* what hostBeaconQuery returns once its queries gave the outcomes res
hostBeaconQuery(res, score, src, fqdn, cid) ==
  IF res.exact.st = "err" THEN NoInfo
  ELSE IF res.exact.n > 0
    THEN [query    |-> [op |-> "$set", elem |-> DatElem(score, fqdn, cid)],
          selector |-> [t |-> "exact", src |-> src, mbproxy |-> fqdn]]
  ELSE IF res.lower.st = "err" THEN NoInfo
  ELSE IF res.lower.n = 0
    THEN IF res.upper.st = "err" THEN NoInfo
         ELSE IF res.upper.n = 0
           THEN [query    |-> [op |-> "$push", elem |-> DatElem(score, fqdn, cid)],
                 selector |-> [t |-> "src", src |-> src]]
           ELSE NoInfo
  ELSE [query    |-> [op |-> "$set", elem |-> DatElem(score, fqdn, cid)],
        selector |-> [t |-> "lower", src |-> src, cid |-> cid, lte |-> score]]

\* NextQuery without the return after an exact match
NextQueryExactFallsThrough(res) ==
  IF res.exact.st = "none" THEN "exact"
  ELSE IF res.exact.st = "err" THEN "cb"
  ELSE IF res.lower.st = "none" THEN "lower"
  ELSE IF res.lower.st = "err" \/ res.lower.n > 0 THEN "cb"
  ELSE IF res.upper.st = "none" THEN "upper"
  ELSE "cb"

\* NextQuery of a loop that skips the entry ("continue") when a query failed
NextQuerySkipOnErr(res) ==
  IF res.exact.st = "none" THEN "exact"
  ELSE IF res.exact.st = "err" THEN "recv"
  ELSE IF res.exact.n > 0 THEN "cb"
  ELSE IF res.lower.st = "none" THEN "lower"
  ELSE IF res.lower.st = "err" THEN "recv"
  ELSE IF res.lower.n > 0 THEN "cb"
  ELSE IF res.upper.st = "none" THEN "upper"
  ELSE IF res.upper.st = "err" THEN "recv"
  ELSE "cb"

\* where hostBeaconQuery goes after the outcomes res: the next query it issues,
\* or "cb" when it returns to the loop, which then calls analyzedCallback
NextQuery(res) ==
  IF res.exact.st = "none" THEN "exact"
  ELSE IF res.exact.st = "err" \/ res.exact.n > 0 THEN "cb"
  ELSE IF res.lower.st = "none" THEN "lower"
  ELSE IF res.lower.st = "err" \/ res.lower.n > 0 THEN "cb"
  ELSE IF res.upper.st = "none" THEN "upper"
  ELSE "cb"

PairKey(e) == [t |-> "pair", src |-> e.Hosts.src, fqdn |-> e.Hosts.FQDN]

\* Output of a loop whose strobe branch falls through into the scoring branch's
\* output.beacon assignment
OutputStrobeFallsThrough(e, res, min, max, cid) ==
  IF e.TsNil
    THEN [uconnproxy |-> [query |-> [op |-> "$set", strobeFQDN |-> TRUE],
                          selector |-> PairKey(e)],
          beacon     |-> [query |-> [op |-> "$set", cid |-> cid, strobeFQDN |-> FALSE],
                          selector |-> PairKey(e)],
          hostBeacon |-> NoInfo]
    ELSE LET a == Analyze(e, min, max)
         IN  [uconnproxy |-> NoInfo,
              beacon     |-> [query |-> [op |-> "$set",
                                         connection_count |-> e.ConnectionCount,
                                         proxy |-> e.Proxy,
                                         ts |-> a,
                                         tslist |-> e.TsList,
                                         score |-> a.score,
                                         cid |-> cid,
                                         strobeFQDN |-> FALSE],
                              selector |-> PairKey(e)],
              hostBeacon |-> hostBeaconQuery(res, a.score, e.Hosts.src, e.Hosts.FQDN, cid)]

\* the update the loop body hands to analyzedCallback for entry e
Output(e, res, min, max, cid) ==
  IF e.TsNil
    THEN [uconnproxy |-> [query |-> [op |-> "$set", strobeFQDN |-> TRUE],
                          selector |-> PairKey(e)],
          beacon     |-> NoInfo,
          hostBeacon |-> NoInfo]
    ELSE LET a == Analyze(e, min, max)
         IN  [uconnproxy |-> NoInfo,
              beacon     |-> [query |-> [op |-> "$set",
                                         connection_count |-> e.ConnectionCount,
                                         proxy |-> e.Proxy,
                                         ts |-> a,
                                         tslist |-> e.TsList,
                                         score |-> a.score,
                                         cid |-> cid,
                                         strobeFQDN |-> FALSE],
                              selector |-> PairKey(e)],
              hostBeacon |-> hostBeaconQuery(res, a.score, e.Hosts.src, e.Hosts.FQDN, cid)]

\* ------------------------------------------------------------------ writer
\* does element e satisfy the selector's element condition
SelMatches(sel, e) ==
  CASE sel.t = "exact" -> e.mbproxy = sel.mbproxy
    [] sel.t = "lower" -> e.cid = sel.cid /\ e.max_beacon_proxy_score <= sel.lte
    [] OTHER           -> FALSE

\* position the positional operator dat.$ binds to: the first matching element, 0 if none
Positional(sel, d) ==
  IF \E i \in 1..Len(d) : SelMatches(sel, d[i])
    THEN CHOOSE i \in 1..Len(d) :
           SelMatches(sel, d[i]) /\ \A j \in 1..(i - 1) : ~SelMatches(sel, d[j])
    ELSE 0

\* the host document's dat array after the writer applied one updateInfo
ApplyHost(info, d) ==
  CASE info.query.op = "$push" -> Append(d, info.query.elem)
    [] info.query.op = "$set"  ->
         LET i == Positional(info.selector, d)
         IN  IF i = 0 THEN d ELSE [d EXCEPT ![i] = info.query.elem]
    [] OTHER -> d

\* ------------------------------------------------------------------- state
VARIABLES
  tsMin, tsMax, chunk,   \* analyzer fields set by newAnalyzer
  chClosed,              \* analysisChannel has been closed
  sending,               \* the entry a blocked collect() offers on the channel
  wg,                    \* analysisWg counter
  pc, entry, qres,       \* per worker: position, current entry, query outcomes
  pcClose,               \* per close() call: position
  closedCalls,           \* invocations of closedCallback of this analyzer
  hosts,                 \* hosts collection: src -> dat array
  sink,                  \* envelopes handed to analyzedCallback, not yet written
  runs,                  \* analyzers constructed so far
  nCollect,              \* collect() calls so far; the id of the latest entry
  accepted,              \* ids of the entries a worker received
  analyzed,              \* id -> invocations of analyzedCallback with it
  panicked,              \* some call panicked (send on / close of a closed channel)
  log,                   \* history: the analyzedCallback invocations of this analyzer
  seen,                  \* history: fqdns whose decision began under this analyzer
  single,                \* history: one decision at a time, each pair once per chunk,
                         \*   since an analyzer was built on a document without
                         \*   two dat elements of one (cid, mbproxy)
  singleMb,              \* history: the same, since an analyzer was built on a
                         \*   document without two dat elements of one mbproxy
  everSeen,              \* history: (src, fqdn) pairs whose decision began under
                         \*   any analyzer
  rising,                \* history: one decision at a time, each pair once per chunk,
                         \*   every analyzer's chunk above the one before, since the
                         \*   empty collection
  fresh,                 \* history: the same, and each pair once over all chunks
  lastWrite              \* history: the last replace-lower update the writer
                         \*   applied, with the dat array before and after it

vars == <<tsMin, tsMax, chunk, chClosed, sending, wg, pc, entry, qres, pcClose,
          closedCalls, hosts, sink, runs, nCollect, accepted, analyzed, panicked,
          log, seen, single, singleMb, everSeen, rising, fresh, lastWrite>>

analyzerVars == <<tsMin, tsMax, chunk>>

workerVars == <<pc, entry, qres>>

countVars == <<runs, nCollect, accepted, analyzed>>

watchVars == <<seen, single, singleMb, everSeen, rising, fresh, lastWrite>>

NoWrite == [info |-> NoInfo]

\* no two dat elements of one (cid, mbproxy)
NoDupDat(d) ==
  \A i, j \in 1..Len(d) : i # j => ~(d[i].cid = d[j].cid /\ d[i].mbproxy = d[j].mbproxy)

\* no two dat elements of one mbproxy
NoDupMbproxy(d) ==
  \A i, j \in 1..Len(d) : i # j => d[i].mbproxy # d[j].mbproxy

Init ==
  /\ \E w \in Windows : tsMin = w.tsMin /\ tsMax = w.tsMax
  /\ chunk = 0
  /\ chClosed = FALSE
  /\ sending = NoEntry
  /\ wg = 0
  /\ pc = [w \in Workers |-> "unstarted"]
  /\ entry = [w \in Workers |-> NoEntry]
  /\ qres = [w \in Workers |-> NoQueries]
  /\ pcClose = [c \in Closers |-> "idle"]
  /\ closedCalls = 0
  /\ hosts = [s \in Srcs |-> <<>>]
  /\ sink = <<>>
  /\ runs = 1
  /\ nCollect = 0
  /\ accepted = {}
  /\ analyzed = <<>>
  /\ panicked = FALSE
  /\ log = <<>>
  /\ seen = {}
  /\ single = TRUE
  /\ singleMb = TRUE
  /\ everSeen = {}
  /\ rising = TRUE
  /\ fresh = TRUE
  /\ lastWrite = NoWrite

\* --------------------------------------------------------------- the pool
\* start(): analysisWg.Add(1) and the goroutine begins its range loop
start(w) ==
  /\ pc[w] = "unstarted"
  /\ wg' = wg + 1
  /\ pc' = [pc EXCEPT ![w] = "recv"]
  /\ UNCHANGED <<analyzerVars, chClosed, sending, entry, qres, pcClose, closedCalls,
                 hosts, sink, countVars, panicked, log, watchVars>>

\* collect(data) on a buffered channel: the send returns without a receiver
collectBuffered(in) ==
  /\ sending = NoEntry
  /\ nCollect' = nCollect + 1
  /\ analyzed' = Append(analyzed, 0)
  /\ IF chClosed
       THEN /\ panicked' = TRUE
            /\ UNCHANGED <<sending, accepted>>
       ELSE /\ sending' = [id |-> nCollect + 1, in |-> in]
            /\ accepted' = accepted \cup {nCollect + 1}
            /\ UNCHANGED panicked
  /\ UNCHANGED <<analyzerVars, chClosed, wg, workerVars, pcClose, closedCalls,
                 hosts, sink, runs, log, watchVars>>

\* collect(data): the send on the unbuffered channel; it blocks until a worker
\* receives, and panics on a closed channel
collect(in) ==
  /\ sending = NoEntry
  /\ nCollect' = nCollect + 1
  /\ analyzed' = Append(analyzed, 0)
  /\ IF chClosed
       THEN /\ panicked' = TRUE
            /\ UNCHANGED sending
       ELSE /\ sending' = [id |-> nCollect + 1, in |-> in]
            /\ UNCHANGED panicked
  /\ UNCHANGED <<analyzerVars, chClosed, wg, workerVars, pcClose, closedCalls,
                 hosts, sink, runs, accepted, log, watchVars>>

\* one iteration of "for entry := range a.analysisChannel" up to the first
\* suspension point: receive, then the strobe test and the scoring; the scoring
\* of a non-nil TsList with fewer than 2 timestamps panics (make with a
\* negative length, or diff[0] of an empty slice)
recv(w) ==
  /\ pc[w] = "recv"
  /\ sending # NoEntry
  /\ entry' = [entry EXCEPT ![w] = sending]
  /\ qres' = [qres EXCEPT ![w] = NoQueries]
  /\ sending' = NoEntry
  /\ accepted' = accepted \cup {sending.id}
  /\ pc' = [pc EXCEPT ![w] = IF sending.in.TsNil THEN "cb"
                             ELSE IF Len(sending.in.TsList) < 2 THEN "panic"
                             ELSE NextQuery(NoQueries)]
  /\ panicked' = (panicked \/ (~sending.in.TsNil /\ Len(sending.in.TsList) < 2))
  /\ UNCHANGED <<analyzerVars, chClosed, wg, pcClose, closedCalls, hosts, sink,
                 runs, nCollect, analyzed, log, watchVars>>

\* the end of the range loop without analysisWg.Done()
exitNoDone(w) ==
  /\ pc[w] = "recv"
  /\ chClosed
  /\ sending = NoEntry
  /\ pc' = [pc EXCEPT ![w] = "done"]
  /\ UNCHANGED <<analyzerVars, chClosed, sending, wg, entry, qres, pcClose, closedCalls,
                 hosts, sink, countVars, panicked, log, watchVars>>

\* the range loop ends on the closed, empty channel: analysisWg.Done()
exit(w) ==
  /\ pc[w] = "recv"
  /\ chClosed
  /\ sending = NoEntry
  /\ wg' = wg - 1
  /\ pc' = [pc EXCEPT ![w] = "done"]
  /\ UNCHANGED <<analyzerVars, chClosed, sending, entry, qres, pcClose, closedCalls,
                 hosts, sink, countVars, panicked, log, watchVars>>

\* ------------------------------------------------------- hostBeaconQuery
\* the outcome of the counted query named k for worker w's entry
RunQuery(k, w) ==
  LET e == entry[w].in
      d == hosts[e.Hosts.src]
      s == Score(e, tsMin, tsMax)
  IN  CASE k = "exact" -> Counted(ExactMatches(d, e.Hosts.FQDN))
        [] k = "lower" -> Counted(LowerMatches(d, chunk, s))
        [] k = "upper" -> Counted(UpperMatches(d, chunk, s))

\* a decision for src is under way (its first query is issued, its update is
\* not yet handed over) in a worker other than w, or its update awaits the writer
Overlaps(w, src) ==
  \/ \E v \in Workers \ {w} :
       pc[v] \in {"lower", "upper", "cb"} /\ ~entry[v].in.TsNil
         /\ entry[v].in.Hosts.src = src
  \/ \E i \in 1..Len(sink) :
       sink[i].out.beacon # NoInfo /\ sink[i].out.beacon.selector.src = src

\* one counted query of hostBeaconQuery: it returns its count, or an error
\* when the store fails; watch switches the bookkeeping of seen / single on
query(w, k, fails, watch) ==
  /\ pc[w] = k
  /\ LET res == [qres[w] EXCEPT ![k] = IF fails THEN Failed ELSE RunQuery(k, w)]
     IN  /\ qres' = [qres EXCEPT ![w] = res]
         /\ pc' = [pc EXCEPT ![w] = NextQuery(res)]
  /\ IF watch /\ k = "exact"
       THEN LET h   == entry[w].in.Hosts
                key == <<h.src, h.FQDN>>
                ok  == ~Overlaps(w, h.src) /\ key \notin seen
            IN  /\ seen' = seen \cup {key}
                /\ single' = (single /\ ok)
                /\ singleMb' = (singleMb /\ ok)
                /\ everSeen' = everSeen \cup {key}
                /\ rising' = (rising /\ ok)
                /\ fresh' = (fresh /\ ok /\ key \notin everSeen)
                /\ lastWrite' = lastWrite
       ELSE UNCHANGED watchVars
  /\ UNCHANGED <<analyzerVars, chClosed, sending, wg, entry, pcClose, closedCalls,
                 hosts, sink, countVars, panicked, log>>

\* a.analyzedCallback(output) is invoked: the sink has the envelope;
\* keep switches the bookkeeping of log on
analyzedCall(w, keep) ==
  /\ pc[w] = "cb"
  /\ LET out == Output(entry[w].in, qres[w], tsMin, tsMax, chunk)
     IN  /\ sink' = Append(sink, [id |-> entry[w].id, out |-> out])
         /\ log' = IF keep
                     THEN Append(log, [in |-> entry[w].in, res |-> qres[w], out |-> out])
                     ELSE log
  /\ analyzed' = [analyzed EXCEPT ![entry[w].id] = @ + 1]
  /\ pc' = [pc EXCEPT ![w] = "incb"]
  /\ UNCHANGED <<analyzerVars, chClosed, sending, wg, entry, qres, pcClose,
                 closedCalls, hosts, runs, nCollect, accepted, panicked, watchVars>>

\* a.analyzedCallback(output) returns: back to the range loop
analyzedReturn(w) ==
  /\ pc[w] = "incb"
  /\ pc' = [pc EXCEPT ![w] = "recv"]
  /\ UNCHANGED <<analyzerVars, chClosed, sending, wg, entry, qres, pcClose,
                 closedCalls, hosts, sink, countVars, panicked, log, watchVars>>

\* --------------------------------------------------------------- the sink
EnvKey(env) ==
  IF env.out.beacon = NoInfo THEN env.out.uconnproxy.selector
  ELSE env.out.beacon.selector

Remove(s, i) == SubSeq(s, 1, i - 1) \o SubSeq(s, i + 1, Len(s))

\* the writer applies the i-th pending envelope; envelopes of one pair key
\* are applied in the order they were handed over; keep switches the
\* bookkeeping of lastWrite on
apply(i, keep) ==
  /\ i \in 1..Len(sink)
  /\ \A j \in 1..(i - 1) : EnvKey(sink[j]) # EnvKey(sink[i])
  /\ LET info == sink[i].out.hostBeacon
     IN  /\ hosts' = IF info = NoInfo THEN hosts
                      ELSE [hosts EXCEPT ![info.selector.src] = ApplyHost(info, @)]
         /\ lastWrite' = IF keep /\ info.selector.t = "lower"
                           THEN [info   |-> info,
                                 before |-> hosts[info.selector.src],
                                 after  |-> ApplyHost(info, hosts[info.selector.src])]
                           ELSE lastWrite
  /\ sink' = Remove(sink, i)
  /\ UNCHANGED <<analyzerVars, chClosed, sending, wg, workerVars, pcClose,
                 closedCalls, countVars, panicked, log, seen, single, singleMb,
                 everSeen, rising, fresh>>

\* ------------------------------------------------------------------ close
\* close() that returns quietly from close(a.analysisChannel) on a closed channel
\* and goes on to Wait()
closeChannelTwice(c) ==
  /\ pcClose[c] = "idle"
  /\ pcClose' = [pcClose EXCEPT ![c] = "wait"]
  /\ chClosed' = TRUE
  /\ sending' = NoEntry
  /\ panicked' = (panicked \/ sending # NoEntry)
  /\ UNCHANGED <<analyzerVars, wg, workerVars, closedCalls, hosts, sink, countVars,
                 log, watchVars>>

\* close(a.analysisChannel): panics on a closed channel, and makes a sender
\* blocked on the channel panic
closeChannel(c) ==
  /\ pcClose[c] = "idle"
  /\ IF chClosed
       THEN /\ pcClose' = [pcClose EXCEPT ![c] = "panic"]
            /\ panicked' = TRUE
            /\ UNCHANGED <<chClosed, sending>>
       ELSE /\ pcClose' = [pcClose EXCEPT ![c] = "wait"]
            /\ chClosed' = TRUE
            /\ sending' = NoEntry
            /\ panicked' = (panicked \/ sending # NoEntry)
  /\ UNCHANGED <<analyzerVars, wg, workerVars, closedCalls, hosts, sink, countVars,
                 log, watchVars>>

\* close() without a.analysisWg.Wait()
closeNoWait(c) ==
  /\ pcClose[c] = "wait"
  /\ pcClose' = [pcClose EXCEPT ![c] = "cb"]
  /\ UNCHANGED <<analyzerVars, chClosed, sending, wg, workerVars, closedCalls,
                 hosts, sink, countVars, panicked, log, watchVars>>

\* a.analysisWg.Wait() returns
closeWait(c) ==
  /\ pcClose[c] = "wait"
  /\ wg = 0
  /\ pcClose' = [pcClose EXCEPT ![c] = "cb"]
  /\ UNCHANGED <<analyzerVars, chClosed, sending, wg, workerVars, closedCalls,
                 hosts, sink, countVars, panicked, log, watchVars>>

\* a.closedCallback()
closeCallback(c) ==
  /\ pcClose[c] = "cb"
  /\ closedCalls' = closedCalls + 1
  /\ pcClose' = [pcClose EXCEPT ![c] = "done"]
  /\ UNCHANGED <<analyzerVars, chClosed, sending, wg, workerVars, hosts, sink,
                 countVars, panicked, log, watchVars>>

\* ----------------------------------------------------------- newAnalyzer
\* the previous analyzer and its writer have finished
Finished ==
  /\ closedCalls >= 1
  /\ \A c \in Closers : pcClose[c] \in {"idle", "done", "panic"}
  /\ \A w \in Workers : pc[w] \in {"unstarted", "done"}
  /\ sending = NoEntry
  /\ sink = <<>>

\* newAnalyzer(min, max, chunk, ...): a fresh analyzer for the next import
newAnalyzer(win, c) ==
  /\ Finished
  /\ runs' = runs + 1
  /\ tsMin' = win.tsMin /\ tsMax' = win.tsMax /\ chunk' = c
  /\ chClosed' = FALSE
  /\ wg' = 0
  /\ pc' = [w \in Workers |-> "unstarted"]
  /\ entry' = [w \in Workers |-> NoEntry]
  /\ qres' = [w \in Workers |-> NoQueries]
  /\ pcClose' = [k \in Closers |-> "idle"]
  /\ closedCalls' = 0
  /\ log' = <<>>
  /\ seen' = {}
  /\ single' = IF \A s \in Srcs : NoDupDat(hosts[s]) THEN TRUE ELSE single
  /\ singleMb' = IF \A s \in Srcs : NoDupMbproxy(hosts[s]) THEN TRUE ELSE singleMb
  /\ everSeen' = everSeen
  /\ rising' = (rising /\ c > chunk)
  /\ fresh' = (fresh /\ c > chunk)
  /\ lastWrite' = lastWrite
  /\ UNCHANGED <<sending, hosts, sink, nCollect, accepted, analyzed, panicked>>

QueryNames == {"exact", "lower", "upper"}

\* ---------------------------------------------------------- specifications
\* Spec: one analyzer, any use of start / collect / close by its callers, a
\* store that may fail, a writer that applies envelopes at any later time
PoolInputs == {in \in Inputs : in.ConnectionCount \in {50000, 2519}}

Next ==
  \/ \E w \in Workers : start(w)
  \/ nCollect < MaxRecords /\ \E in \in PoolInputs : collect(in)
  \/ \E w \in Workers : recv(w)
  \/ \E w \in Workers : exit(w)
  \/ \E w \in Workers, k \in QueryNames, fails \in BOOLEAN : query(w, k, fails, FALSE)
  \/ \E w \in Workers : analyzedCall(w, FALSE)
  \/ \E w \in Workers : analyzedReturn(w)
  \/ \E i \in 1..Len(sink) : apply(i, FALSE)
  \/ \E c \in Closers : closeChannel(c)
  \/ \E c \in Closers : closeWait(c)
  \/ \E c \in Closers : closeCallback(c)

Spec == Init /\ [][Next]_vars

\* the use the analysis driver makes of an analyzer: workers are started
\* before the first collect(), close() is called once after the last
\* collect() returned, the next analyzer is built when this one and its
\* writer have finished
Started == \A w \in Workers : pc[w] # "unstarted"

\* worker w's envelope has been written
Written(w) == \A i \in 1..Len(sink) : sink[i].id # entry[w].id

\* SpecRuns: successive imports into alternating chunks with MaxWorkers
\* workers; the store does not fail; the callback returns when the envelope
\* is written; collect() is called when a worker is ready to receive, and the
\* lowest ready worker receives
RunInputs ==
  {in \in Inputs : \/ in.ConnectionCount = 1799
                   \/ in.ConnectionCount = 2519 /\ in.Hosts.FQDN = "f1"}

NextRuns ==
  \/ \E w \in Workers : (\A v \in 1..(w - 1) : pc[v] # "unstarted") /\ start(w)
  \/ /\ nCollect < MaxRunRecords
     /\ Started
     /\ \E w \in Workers : pc[w] = "recv"
     /\ \E in \in RunInputs : collect(in)
  \/ \E w \in Workers : (\A v \in 1..(w - 1) : pc[v] # "recv") /\ recv(w)
  \/ \E w \in Workers : exit(w)
  \/ \E w \in Workers, k \in QueryNames : query(w, k, FALSE, TRUE)
  \/ \E w \in Workers : analyzedCall(w, FALSE)
  \/ \E w \in Workers : Written(w) /\ analyzedReturn(w)
  \/ \E i \in 1..Len(sink) : apply(i, FALSE)
  \/ Started /\ sending = NoEntry /\ closeChannel(1)
  \/ closeWait(1)
  \/ closeCallback(1)
  \/ runs < MaxRuns /\ \E win \in Windows, c \in Chunks \ {chunk} : newAnalyzer(win, c)

SpecRuns == Init /\ [][NextRuns]_vars

\* SpecRace: successive imports into alternating chunks with MaxWorkers
\* workers deciding at once and a writer that applies the handed-over
\* envelopes at any later time, in any order across pairs; records of three
\* different scores; the store does not fail
RaceInputs ==
  {in \in Inputs : \/ in.ConnectionCount = 719  /\ in.Hosts.FQDN = "f1"
                   \/ in.ConnectionCount = 1799 /\ in.Hosts.FQDN = "f2"
                   \/ in.ConnectionCount = 2519 /\ in.Hosts.FQDN = "f1"}

NextRace ==
  \/ \E w \in Workers : (\A v \in 1..(w - 1) : pc[v] # "unstarted") /\ start(w)
  \/ /\ nCollect < MaxRaceRecords
     /\ Started
     /\ \E w \in Workers : pc[w] = "recv"
     /\ \E in \in RaceInputs : collect(in)
  \/ \E w \in Workers : (\A v \in 1..(w - 1) : pc[v] # "recv") /\ recv(w)
  \/ \E w \in Workers : exit(w)
  \/ \E w \in Workers, k \in QueryNames : query(w, k, FALSE, FALSE)
  \/ \E w \in Workers : analyzedCall(w, FALSE)
  \/ \E w \in Workers : analyzedReturn(w)
  \/ \E i \in 1..Len(sink) : apply(i, TRUE)
  \/ Started /\ sending = NoEntry /\ closeChannel(1)
  \/ closeWait(1)
  \/ closeCallback(1)
  \/ runs < MaxRaceRuns /\ \E win \in Windows, c \in Chunks \ {chunk} : newAnalyzer(win, c)

SpecRace == Init /\ [][NextRace]_vars

\* SpecSeq: successive imports with a single worker over every input; the
\* store may fail; the callback returns when the envelope is written
NextSeq ==
  \/ start(1)
  \/ /\ nCollect < MaxSeqRecords
     /\ pc[1] = "recv"
     /\ \E in \in Inputs : collect(in)
  \/ recv(1)
  \/ exit(1)
  \/ \E k \in QueryNames, fails \in BOOLEAN : query(1, k, fails, FALSE)
  \/ analyzedCall(1, TRUE)
  \/ Written(1) /\ analyzedReturn(1)
  \/ \E i \in 1..Len(sink) : apply(i, FALSE)
  \/ pc[1] # "unstarted" /\ sending = NoEntry /\ closeChannel(1)
  \/ closeWait(1)
  \/ closeCallback(1)
  \/ runs < MaxSeqRuns /\ \E win \in Windows, c \in Chunks \ {chunk} : newAnalyzer(win, c)

SpecSeq == Init /\ [][NextSeq]_vars

\* SpecKernel: one analyzer with one worker scoring one record of the kernel's
\* input space, and then a rearrangement of it; the store does not fail
Deltas == {1, 20, 60, 100}

RECURSIVE FromDeltas(_, _)
\* the timestamps that start at t0 and advance by the deltas ds
FromDeltas(t0, ds) ==
  IF ds = <<>> THEN <<t0>> ELSE <<t0>> \o FromDeltas(t0 + Head(ds), Tail(ds))

S1List == <<0, 60, 120, 180, 240, 300>>

S3List == <<0, 1, 2, 3, 1000, 1001, 1002>>

KernelLists ==
  {FromDeltas(0, ds) : ds \in UNION {[1..n -> Deltas] : n \in 1..MaxDeltas}}
    \cup {S1List, S3List}

\* non-nil TsLists outside the input contract
ShortLists == {<<>>, <<5>>}

\* connection counts and windows on which the float64 evaluation of the score
\* has the value of its exact evaluation
KernelCounts == {1, 7, 1800, 100000}

KernelWindows == {[tsMin |-> 0, tsMax |-> 36000], [tsMin |-> 100, tsMax |-> 1000]}

KernelInput(cc, ts) ==
  [Hosts |-> [src |-> "h1", FQDN |-> "f1"], Proxy |-> "p1",
   ConnectionCount |-> cc, TsNil |-> FALSE, TsList |-> ts]

KernelInputs ==
  {KernelInput(cc, ts) : cc \in KernelCounts, ts \in KernelLists \cup ShortLists}
    \cup {KernelInput(6, S1List)}

\* the deltas of ts in the order of the list
RawDeltas(ts) == [i \in 1..(Len(ts) - 1) |-> ts[i + 1] - ts[i]]

\* ts with its timestamps permuted, or with its deltas permuted
Rearranged(ts) ==
  {[i \in 1..Len(ts) |-> ts[p[i]]] : p \in Permutations(1..Len(ts))}
    \cup {FromDeltas(ts[1], [i \in 1..(Len(ts) - 1) |-> RawDeltas(ts)[p[i]]]) :
            p \in Permutations(1..(Len(ts) - 1))}

InitKernel ==
  /\ \E w \in KernelWindows : tsMin = w.tsMin /\ tsMax = w.tsMax
  /\ chunk = 0
  /\ chClosed = FALSE
  /\ sending = NoEntry
  /\ wg = 0
  /\ pc = [w \in Workers |-> "unstarted"]
  /\ entry = [w \in Workers |-> NoEntry]
  /\ qres = [w \in Workers |-> NoQueries]
  /\ pcClose = [c \in Closers |-> "idle"]
  /\ closedCalls = 0
  /\ hosts = [s \in Srcs |-> <<>>]
  /\ sink = <<>>
  /\ runs = 1
  /\ nCollect = 0
  /\ accepted = {}
  /\ analyzed = <<>>
  /\ panicked = FALSE
  /\ log = <<>>
  /\ seen = {}
  /\ single = TRUE
  /\ singleMb = TRUE
  /\ everSeen = {}
  /\ rising = TRUE
  /\ fresh = TRUE
  /\ lastWrite = NoWrite

NextKernel ==
  \/ start(1)
  \/ /\ nCollect = 0
     /\ pc[1] = "recv"
     /\ \E in \in KernelInputs : collect(in)
  \/ /\ nCollect = 1
     /\ pc[1] = "recv"
     /\ Len(log) = 1
     /\ Len(log[1].in.TsList) <= MaxPermLen
     /\ \E ts \in Rearranged(log[1].in.TsList) :
          collect([log[1].in EXCEPT !.TsList = ts])
  \/ recv(1)
  \/ exit(1)
  \/ \E k \in QueryNames : query(1, k, FALSE, FALSE)
  \/ analyzedCall(1, TRUE)
  \/ Written(1) /\ analyzedReturn(1)
  \/ \E i \in 1..Len(sink) : apply(i, FALSE)
  \/ pc[1] # "unstarted" /\ sending = NoEntry /\ closeChannel(1)
  \/ closeWait(1)
  \/ closeCallback(1)

SpecKernel == InitKernel /\ [][NextKernel]_vars


\* SpecLive: one analyzer; workers are started and records collected before
\* close(), which is called once when no collect() is blocked; every worker
\* step, store query and callback that can be taken is eventually taken, and
\* so are the steps of close(); the writer is left out, and the scored
\* records carry two timestamps
LiveInputs ==
  {IF in.TsNil THEN in ELSE [in EXCEPT !.TsList = <<0, 60>>] : in \in PoolInputs}

NextLive ==
  \/ pcClose[1] = "idle" /\ \E w \in Workers : start(w)
  \/ /\ nCollect < MaxRecords
     /\ pcClose[1] = "idle"
     /\ \E in \in LiveInputs : collect(in)
  \/ \E w \in Workers : recv(w)
  \/ \E w \in Workers : exit(w)
  \/ \E w \in Workers, k \in QueryNames, fails \in BOOLEAN : query(w, k, fails, FALSE)
  \/ \E w \in Workers : analyzedCall(w, FALSE)
  \/ \E w \in Workers : analyzedReturn(w)
  \/ sending = NoEntry /\ closeChannel(1)
  \/ closeWait(1)
  \/ closeCallback(1)

\* the next step of worker w's goroutine, and of the close() call
WorkerStep(w) ==
  \/ recv(w)
  \/ exit(w)
  \/ \E k \in QueryNames, fails \in BOOLEAN : query(w, k, fails, FALSE)
  \/ analyzedCall(w, FALSE)
  \/ analyzedReturn(w)

CloseStep == closeWait(1) \/ closeCallback(1)

Fairness ==
  /\ \A w \in Workers : WF_vars(WorkerStep(w))
  /\ WF_vars(CloseStep)

SpecLive == Init /\ [][NextLive]_vars /\ Fairness


\* ------------------------------------------------------------------ claims
Busy(w) == pc[w] \in {"exact", "lower", "upper", "cb", "incb"}

Ids == 1..nCollect

\* C1: when close() is called once, after every collect() has returned (no
\* call panicked), closedCallback is invoked at most once, exactly once by
\* the time close() returns, only when no worker holds an entry and every
\* accepted entry's analyzedCallback has returned; and once closedCallback has
\* been invoked no analyzedCallback invocation starts.
C1_ClosedAfterAnalyzed ==
  /\ [](~panicked =>
          /\ closedCalls <= 1
          /\ \A c \in Closers : pcClose[c] = "done" => closedCalls = 1
          /\ closedCalls >= 1 =>
               /\ \A w \in Workers : ~Busy(w)
               /\ \A id \in accepted : analyzed[id] = 1)
  /\ [][(~panicked' /\ closedCalls >= 1) =>
          \A id \in Ids : analyzed'[id] = analyzed[id]]_vars

C1_Witness ==
  /\ ~panicked
  /\ closedCalls = 1
  /\ \E c \in Closers : pcClose[c] = "done"
  /\ accepted = {1, 2}
  /\ entry[1] # NoEntry /\ entry[2] # NoEntry /\ entry[1].id # entry[2].id

\* C2: no entry is analyzed twice, and when closedCallback fires every entry a
\* worker received from collect() has been handed to analyzedCallback exactly
\* once, strobe or not, failed queries or not, with one worker or several.
C2_AnalyzedOnce ==
  /\ \A id \in Ids : analyzed[id] <= 1
  /\ closedCalls >= 1 => \A id \in accepted : analyzed[id] = 1

C2_Witness ==
  /\ closedCalls >= 1
  /\ accepted = {1, 2}
  /\ analyzed = <<1, 1>>
  /\ entry[1] # NoEntry /\ entry[2] # NoEntry /\ entry[1].id # entry[2].id
  /\ \E w \in Workers : entry[w].in.TsNil
  /\ \E w \in Workers : qres[w].lower = Failed

\* C4: two workers hold entries of one source and different fqdns that both
\* counted zero exact, zero lower and zero upper matches, hence both decided
\* insert-new; once both envelopes are written the host document holds (at
\* least) two dat elements of the current chunk.
AllZero(w) ==
  /\ qres[w].exact = Counted(0)
  /\ qres[w].lower = Counted(0)
  /\ qres[w].upper = Counted(0)

BothInserted(v, w) ==
  /\ v # w
  /\ entry[v] # NoEntry /\ entry[w] # NoEntry
  /\ entry[v].id # entry[w].id
  /\ ~entry[v].in.TsNil /\ ~entry[w].in.TsNil
  /\ entry[v].in.Hosts.src = entry[w].in.Hosts.src
  /\ entry[v].in.Hosts.FQDN # entry[w].in.Hosts.FQDN
  /\ AllZero(v) /\ AllZero(w)
  /\ analyzed[entry[v].id] = 1 /\ analyzed[entry[w].id] = 1
  /\ Written(v) /\ Written(w)

InChunk(d) == {i \in 1..Len(d) : d[i].cid = chunk}

C4_RaceInsertsTwo ==
  \A v, w \in Workers :
    BothInserted(v, w) => Cardinality(InChunk(hosts[entry[v].in.Hosts.src])) >= 2

C4_Witness ==
  /\ BothInserted(1, 2)
  /\ Len(hosts["h1"]) = 2
  /\ hosts["h1"][1].cid = hosts["h1"][2].cid
  /\ hosts["h1"][1].mbproxy # hosts["h1"][2].mbproxy

\* C7: when one of the three counted queries of an entry fails, no further
\* query is issued for it, the host update is empty, the pair-record update
\* carries the pair key as selector and the $set document with the score, and
\* the envelope handed to analyzedCallback is that one.
HasFailed(w) == \E k \in QueryNames : qres[w][k] = Failed

C7_ErrorIsNoop ==
  \A w \in Workers :
    HasFailed(w) =>
      LET e   == entry[w].in
          out == Output(e, qres[w], tsMin, tsMax, chunk)
      IN  /\ pc[w] \notin QueryNames
          /\ qres[w].exact = Failed => qres[w].lower = NotIssued
          /\ qres[w].upper.st # "none" => qres[w].lower = Counted(0)
          /\ qres[w].lower # Counted(0) => qres[w].upper = NotIssued
          /\ out.hostBeacon = NoInfo
          /\ out.beacon.selector = PairKey(e)
          /\ out.beacon.query.op = "$set"
          /\ out.beacon.query.score = Score(e, tsMin, tsMax)
          /\ out.beacon.query.cid = chunk
          /\ pc[w] # "cb" => analyzed[entry[w].id] = 1
          /\ \A i \in 1..Len(sink) : sink[i].id = entry[w].id => sink[i].out = out

C7_Witness ==
  \E w \in Workers :
    /\ qres[w].upper = Failed
    /\ pc[w] = "incb"
    /\ \E i \in 1..Len(sink) :
         /\ sink[i].id = entry[w].id
         /\ sink[i].out.hostBeacon = NoInfo
         /\ sink[i].out.beacon.query.score = 900

\* C8: for an entry with a nil TsList no query is issued and the envelope
\* carries the uconnproxy update {$set strobeFQDN = true} with the pair key as
\* selector and nothing else.
StrobeUpdate(e) ==
  [uconnproxy |-> [query |-> [op |-> "$set", strobeFQDN |-> TRUE],
                   selector |-> [t |-> "pair", src |-> e.Hosts.src, fqdn |-> e.Hosts.FQDN]],
   beacon     |-> NoInfo,
   hostBeacon |-> NoInfo]

C8_StrobeOnly ==
  \A w \in Workers :
    (entry[w] # NoEntry /\ entry[w].in.TsNil) =>
      /\ pc[w] \notin QueryNames
      /\ qres[w] = NoQueries
      /\ Output(entry[w].in, qres[w], tsMin, tsMax, chunk) = StrobeUpdate(entry[w].in)
      /\ pc[w] # "cb" => analyzed[entry[w].id] = 1
      /\ \A i \in 1..Len(sink) :
           sink[i].id = entry[w].id => sink[i].out = StrobeUpdate(entry[w].in)

C8_Witness ==
  \E w \in Workers :
    /\ entry[w] # NoEntry /\ entry[w].in.TsNil
    /\ pc[w] = "incb"
    /\ \E i \in 1..Len(sink) : sink[i].id = entry[w].id
    /\ hosts["h1"] # <<>>

\* C10: whatever start(), collect() and close() calls are made on an
\* analyzer, repeated or concurrent close() calls included, closedCallback
\* is invoked at most once.
C10_ClosedAtMostOnce == closedCalls <= 1

C10_Witness ==
  /\ closedCalls = 1
  /\ \E c \in Closers : pcClose[c] = "panic"
  /\ \E w \in Workers : pc[w] = "done" /\ entry[w] # NoEntry

\* C3 as stated: under one decision at a time and each pair once per chunk,
\* since an analyzer was built on a host document without two dat elements of
\* one (cid, mbproxy), no host document has two dat elements of one
\* (cid, mbproxy).
C3_Original == single => \A s \in Srcs : NoDupDat(hosts[s])

\* C3 amended: under one decision at a time and each pair once per chunk,
\* since an analyzer was built on a host document without two dat elements of
\* one mbproxy (an empty document for one), no host document has two dat
\* elements of one (cid, mbproxy).
C3_NoDupFromDistinctMbproxy == singleMb => \A s \in Srcs : NoDupDat(hosts[s])

C3_Witness ==
  /\ singleMb
  /\ runs = 3
  /\ nCollect = 4
  /\ sink = <<>>
  /\ Len(hosts["h1"]) = 2
  /\ hosts["h1"][1].cid # hosts["h1"][2].cid

\* the entries of log that carry a score, in the order of their callbacks
IsScored(x) == ~x.in.TsNil

Scored == SelectSeq(log, IsScored)

LogScore(x) == x.out.beacon.query.score

\* insert-new is "src", replace-lower "lower", the exact replace "exact", noop "nil"
Kind(x) == x.out.hostBeacon.selector.t

\* C5: after an exact-match count above zero no further query is issued and
\* the host update is the $set of {score, fqdn, current chunk} selected by the
\* exact-match query, whatever the stored score and chunk; once written, the
\* element of that fqdn carries the new score and the current chunk (S6: after
\* f1/0.9 and f2/0.5, f1/0.4 leaves the f1 element with 0.4).
C5_ExactReplaces ==
  /\ \A w \in Workers :
       qres[w].exact.n > 0 =>
         LET e == entry[w].in
         IN  /\ pc[w] \notin QueryNames
             /\ qres[w].lower = NotIssued
             /\ qres[w].upper = NotIssued
             /\ Output(e, qres[w], tsMin, tsMax, chunk).hostBeacon =
                  [query    |-> [op |-> "$set",
                                 elem |-> [max_beacon_proxy_score |-> Score(e, tsMin, tsMax),
                                           mbproxy |-> e.Hosts.FQDN, cid |-> chunk]],
                   selector |-> [t |-> "exact", src |-> e.Hosts.src, mbproxy |-> e.Hosts.FQDN]]
  /\ (log # <<>> /\ sink = <<>> /\ log[Len(log)].res.exact.n > 0) =>
       LET x == log[Len(log)]
           d == hosts[x.in.Hosts.src]
       IN  /\ \E i \in 1..Len(d) : d[i].mbproxy = x.in.Hosts.FQDN
           /\ \A i \in 1..Len(d) :
                d[i].mbproxy = x.in.Hosts.FQDN =>
                  d[i] = [max_beacon_proxy_score |-> LogScore(x),
                          mbproxy |-> x.in.Hosts.FQDN, cid |-> chunk]

C5_Witness ==
  /\ Len(log) = 3
  /\ \A i \in 1..3 : IsScored(log[i])
  /\ log[1].in.Hosts.FQDN = "f1" /\ LogScore(log[1]) = 900 /\ Kind(log[1]) = "src"
  /\ log[2].in.Hosts.FQDN = "f2" /\ LogScore(log[2]) = 500 /\ Kind(log[2]) = "nil"
  /\ log[3].in.Hosts.FQDN = "f1" /\ LogScore(log[3]) = 400 /\ Kind(log[3]) = "exact"
  /\ sink = <<>>
  /\ hosts["h1"] = <<[max_beacon_proxy_score |-> 400, mbproxy |-> "f1", cid |-> 0]>>

\* C6: with an exact-match count of zero and no failed query, the host update
\* is decided by the host document the queries read: the $set selected by the
\* lower-match query if an element of the current chunk has a score <= score;
\* else the $push of {score, fqdn, chunk} if no element of the current chunk
\* has a score >= score; else empty. The upper-match query is issued only
\* after a lower-match count of zero.
C6_DecidedByDocument ==
  /\ \A w \in Workers :
       (pc[w] = "cb" /\ ~entry[w].in.TsNil /\ qres[w].exact = Counted(0) /\ ~HasFailed(w)) =>
         LET e   == entry[w].in
             sc  == Score(e, tsMin, tsMax)
             d   == hosts[e.Hosts.src]
             low == \E i \in 1..Len(d) : d[i].cid = chunk /\ d[i].max_beacon_proxy_score <= sc
             upp == \E i \in 1..Len(d) : d[i].cid = chunk /\ d[i].max_beacon_proxy_score >= sc
             el  == [max_beacon_proxy_score |-> sc, mbproxy |-> e.Hosts.FQDN, cid |-> chunk]
             out == Output(e, qres[w], tsMin, tsMax, chunk).hostBeacon
         IN  /\ low => out = [query    |-> [op |-> "$set", elem |-> el],
                              selector |-> [t |-> "lower", src |-> e.Hosts.src,
                                            cid |-> chunk, lte |-> sc]]
             /\ (~low /\ ~upp) => out = [query    |-> [op |-> "$push", elem |-> el],
                                         selector |-> [t |-> "src", src |-> e.Hosts.src]]
             /\ (~low /\ upp) => out = NoInfo
  /\ \A w \in Workers : qres[w].upper.st # "none" => qres[w].lower = Counted(0)

C6_Witness ==
  /\ pc[1] = "cb"
  /\ qres[1] = [exact |-> Counted(0), lower |-> Counted(1), upper |-> NotIssued]
  /\ hosts["h1"] = <<[max_beacon_proxy_score |-> 400, mbproxy |-> "f1", cid |-> 0]>>
  /\ entry[1].in.Hosts.FQDN = "f2"
  /\ ~entry[1].in.TsNil
  /\ Score(entry[1].in, tsMin, tsMax) = 500

\* the conclusion of C9 for the scored entries L of the first analyzer
C9_Body(L) ==
  L # <<>> =>
    /\ Kind(L[1]) = "src"
    /\ \A i \in 2..Len(L) : Kind(L[i]) \in {"lower", "nil"}
    /\ sink = <<>> =>
         LET d == hosts[L[1].in.Hosts.src]
         IN  /\ Len(d) = 1
             /\ d[1].cid = chunk
             /\ \A i \in 1..Len(L) : LogScore(L[i]) <= d[1].max_beacon_proxy_score
             /\ \E i \in 1..Len(L) :
                  /\ L[i].in.Hosts.FQDN = d[1].mbproxy
                  /\ LogScore(L[i]) = d[1].max_beacon_proxy_score

\* the premise of C9: the first analyzer (the host document began empty), one
\* source, pairwise different fqdns
C9_Premise(L) ==
  /\ runs = 1
  /\ \A i, j \in 1..Len(L) :
       /\ L[i].in.Hosts.src = L[j].in.Hosts.src
       /\ i # j => L[i].in.Hosts.FQDN # L[j].in.Hosts.FQDN

NoFailure(L) == \A i \in 1..Len(L), k \in QueryNames : L[i].res[k] # Failed

IsAscending(ts) == \A i \in 1..(Len(ts) - 1) : ts[i] < ts[i + 1]

IsShort(e) == e # NoEntry /\ ~e.in.TsNil /\ Len(e.in.TsList) < 2

\* the "ts" fields of the pair update of a callback
Ts(x) == x.out.beacon.query.ts

\* C11: a worker that received a non-strobe record whose TsList has fewer
\* than 2 timestamps does not die of it: neither the worker nor the program
\* panics.
C11_MalformedNotFatal ==
  \A w \in Workers : IsShort(entry[w]) => (pc[w] # "panic" /\ ~panicked)

\* C12: for every record with an ascending TsList of at least 4 timestamps,
\* a connection count >= 1 and tsMin < tsMax, the emitted score lies in
\* [0, 1] (0..1000 thousandths), the skew in [-1, 1], conns_score in [0, 1],
\* the dispersion is >= 0, and the score is
\* ceil(1000 * ((1 - |skew|) + max(0, 1 - dispersion/30) + conns_score) / 3).
C12_ScoreRange ==
  \A i \in 1..Len(log) :
    LET x == log[i]
    IN  (IsAscending(x.in.TsList) /\ Len(x.in.TsList) >= 4
           /\ x.in.ConnectionCount >= 1 /\ tsMin < tsMax) =>
          LET t == Ts(x)
          IN  /\ LogScore(x) \in 0..1000
              /\ t.score = LogScore(x)
              /\ t.skew[2] > 0 /\ Abs(t.skew[1]) <= t.skew[2]
              /\ t.conns_score[2] > 0
              /\ 0 <= t.conns_score[1] /\ t.conns_score[1] <= t.conns_score[2]
              /\ t.dispersion >= 0
              /\ LogScore(x) =
                   CeilThousandthsOfThird(
                     RAdd(RAdd(<<t.skew[2] - Abs(t.skew[1]), t.skew[2]>>,
                               <<Max2(0, 30 - t.dispersion), 30>>),
                          t.conns_score))

C12_Witness ==
  /\ Len(log) = 1
  /\ IsAscending(log[1].in.TsList)
  /\ Len(log[1].in.TsList) = 6
  /\ log[1].in.ConnectionCount = 100000
  /\ Ts(log[1]).skew[1] # 0
  /\ Ts(log[1]).dispersion > 0
  /\ Ts(log[1]).dispersion < 30
  /\ LogScore(log[1]) < 1000

IsS1(x) ==
  /\ x.in.TsList = S1List /\ x.in.ConnectionCount = 6
  /\ tsMin = 0 /\ tsMax = 36000 /\ chunk = 0

\* C13 as stated: S1 (window 0..36000, chunk 0, TsList [0,60,120,180,240,300],
\* connection count 6) is scored 0.667.
C13_Original == \A i \in 1..Len(log) : IsS1(log[i]) => LogScore(log[i]) = 667

\* C13 amended: S1 is scored 0.668.
C13_S1Scored668 == \A i \in 1..Len(log) : IsS1(log[i]) => LogScore(log[i]) = 668

C13_Witness ==
  /\ Len(log) = 1
  /\ IsS1(log[1])
  /\ Ts(log[1]).skew = <<0, 1>>
  /\ Ts(log[1]).dispersion = 0
  /\ Ts(log[1]).conns_score = <<1, 600>>
  /\ sink = <<>>

IsS3(x) ==
  /\ x.in.TsList = S3List /\ x.in.ConnectionCount = 7
  /\ tsMin = 0 /\ tsMax = 36000

\* C14 as stated: S3 (window 0..36000, TsList [0,1,2,3,1000,1001,1002],
\* connection count 7) yields skew # 0 and a dispersion above 30, hence a
\* madScore of 0 and a score of at most ceil(1000 * (1 + 0 + 1) / 3) = 667.
C14_Original ==
  \A i \in 1..Len(log) :
    IsS3(log[i]) =>
      /\ Ts(log[i]).skew[1] # 0
      /\ Ts(log[i]).dispersion > 30
      /\ LogScore(log[i]) <= 667

\* C14 amended: S3 yields skew = 0 and dispersion 0 (the three quartiles of
\* the sorted deltas [1,1,1,1,1,997] are all 1), hence madScore = 1 and the
\* score 0.668.
C14_S3Degenerate ==
  \A i \in 1..Len(log) :
    IsS3(log[i]) =>
      /\ Ts(log[i]).skew = <<0, 1>>
      /\ Ts(log[i]).dispersion = 0
      /\ Ts(log[i]).range = 996
      /\ LogScore(log[i]) = 668

C14_Witness ==
  /\ Len(log) = 1
  /\ IsS3(log[1])
  /\ Ts(log[1]).intervals = <<1, 997>>
  /\ Ts(log[1]).interval_counts = <<5, 1>>
  /\ sink = <<>>

\* the second callback's record is the first one's with TsList rearranged
IsRearrangedPair ==
  /\ Len(log) = 2
  /\ log[2].in = [log[1].in EXCEPT !.TsList = log[2].in.TsList]

\* C15 as stated: permuting the timestamps of TsList changes none of range,
\* mode, mode_count, intervals, interval_counts, dispersion, skew, score.
C15_Original ==
  (IsRearrangedPair /\ SortInt64(log[2].in.TsList) = SortInt64(log[1].in.TsList)) =>
     Ts(log[2]) = Ts(log[1]) /\ LogScore(log[2]) = LogScore(log[1])

\* C15 amended: permuting the deltas of TsList (the kernel sorts the deltas,
\* not the timestamps) changes none of range, mode, mode_count, intervals,
\* interval_counts, dispersion, skew, score.
C15_DeltaOrderIrrelevant ==
  (IsRearrangedPair
     /\ SortInt64(RawDeltas(log[2].in.TsList)) = SortInt64(RawDeltas(log[1].in.TsList))) =>
     Ts(log[2]) = Ts(log[1]) /\ LogScore(log[2]) = LogScore(log[1])

C15_Witness ==
  /\ IsRearrangedPair
  /\ log[1].in.TsList = <<0, 1, 21, 81>>
  /\ log[2].in.TsList = <<0, 60, 80, 81>>
  /\ Ts(log[2]) = Ts(log[1])
  /\ Ts(log[1]).range = 59

IsConstantInterval(ts) ==
  /\ Len(ts) >= 2
  /\ \A i \in 1..(Len(ts) - 1) : ts[i + 1] - ts[i] = ts[2] - ts[1]

\* C16: for every TsList of at least 2 timestamps whose consecutive
\* differences are all equal, skew = 0 and dispersion = 0, the score is
\* ceil(1000 * (2 + conns_score) / 3) thousandths, and it is 1.000 when the
\* connection count is at least (tsMax - tsMin) / 10 (S2).
C16_ConstantInterval ==
  \A i \in 1..Len(log) :
    IsConstantInterval(log[i].in.TsList) =>
      LET t == Ts(log[i])
      IN  /\ t.skew[1] = 0
          /\ t.dispersion = 0
          /\ LogScore(log[i]) = CeilThousandthsOfThird(RAdd(<<2, 1>>, t.conns_score))
          /\ 10 * log[i].in.ConnectionCount >= tsMax - tsMin => LogScore(log[i]) = 1000

C16_Witness ==
  /\ Len(log) = 1
  /\ log[1].in.TsList = S1List
  /\ log[1].in.ConnectionCount = 100000
  /\ tsMin = 0 /\ tsMax = 36000
  /\ LogScore(log[1]) = 1000
  /\ sink = <<>>

\* the number of positions of the sequence s that hold v
Occurrences(s, v) == Cardinality({j \in 1..Len(s) : s[j] = v})

SeqValues(s) == {s[j] : j \in 1..Len(s)}

RECURSIVE SeqSum(_)
SeqSum(s) == IF s = <<>> THEN 0 ELSE Head(s) + SeqSum(Tail(s))

\* C17: for every scored record, with diff the sorted deltas of its TsList
\* (m = Len(TsList) - 1 >= 1 of them): intervals is strictly ascending and
\* holds exactly the distinct values of diff, interval_counts has the same
\* length, interval_counts[i] is the number of occurrences of intervals[i] in
\* diff, and the interval_counts sum to m.
C17_CountMap ==
  \A i \in 1..Len(log) :
    LET t    == Ts(log[i])
        diff == SortInt64(RawDeltas(log[i].in.TsList))
    IN  /\ \A j \in 1..(Len(t.intervals) - 1) : t.intervals[j] < t.intervals[j + 1]
        /\ SeqValues(t.intervals) = SeqValues(diff)
        /\ Len(t.interval_counts) = Len(t.intervals)
        /\ \A j \in 1..Len(t.intervals) :
             t.interval_counts[j] = Occurrences(diff, t.intervals[j])
        /\ SeqSum(t.interval_counts) = Len(log[i].in.TsList) - 1

C17_Witness ==
  /\ Len(log) = 1
  /\ Len(log[1].in.TsList) = 6
  /\ Ts(log[1]).intervals = <<1, 20, 100>>
  /\ Ts(log[1]).interval_counts = <<2, 1, 2>>

\* C18: for every scored record, mode is an element of intervals, mode_count
\* is the largest interval count and the count of mode, and no smaller
\* interval has that count.
C18_Mode ==
  \A i \in 1..Len(log) :
    LET t == Ts(log[i])
    IN  \E j \in 1..Len(t.intervals) :
          /\ t.intervals[j] = t.mode
          /\ t.interval_counts[j] = t.mode_count
          /\ \A k \in 1..Len(t.intervals) : t.interval_counts[k] <= t.mode_count
          /\ \A k \in 1..Len(t.intervals) :
               t.interval_counts[k] = t.mode_count => t.intervals[j] <= t.intervals[k]

C18_Witness ==
  /\ Len(log) = 1
  /\ Ts(log[1]).intervals = <<1, 20, 100>>
  /\ Ts(log[1]).interval_counts = <<1, 2, 2>>
  /\ Ts(log[1]).mode = 20
  /\ Ts(log[1]).mode_count = 2

\* --------------------------------------------------- claims, the channel
StartedWorkers == {w \in Workers : pc[w] # "unstarted"}

\* the records collect() has returned for whose analyzedCallback has not returned
InFlight ==
  {id \in accepted :
     analyzed[id] = 0 \/ \E w \in Workers : pc[w] = "incb" /\ entry[w].id = id}

\* C19: the records accepted by collect() whose analyzedCallback has not yet
\* returned are never more than the started workers, and while no worker is
\* started no collect() has returned.
C19_Unbuffered ==
  /\ Cardinality(InFlight) <= Cardinality(StartedWorkers)
  /\ StartedWorkers = {} => accepted = {}

C19_Witness ==
  /\ Cardinality(StartedWorkers) = 1
  /\ Cardinality(InFlight) = 1
  /\ sending # NoEntry
  /\ ~panicked

\* C20: under fair scheduling, with every store query and analyzedCallback
\* returning, a close() called after the last collect() has returned
\* eventually invokes closedCallback and returns, however many workers were
\* started and records collected.
C20_CloseTerminates ==
  (pcClose[1] = "wait") ~> (pcClose[1] = "done" /\ closedCalls = 1)

C20_Witness ==
  /\ pcClose[1] = "done"
  /\ closedCalls = 1
  /\ nCollect = MaxRecords
  /\ accepted = 1..MaxRecords
  /\ \A w \in Workers : pc[w] = "done"

\* no two dat elements of one cid
OnePerChunk(d) ==
  \A i, j \in 1..Len(d) : i # j => d[i].cid # d[j].cid

\* C21 as stated: with one decision at a time per host, each (source, fqdn)
\* processed at most once per chunk, every host update written before the next
\* decision and the chunk IDs increasing, no host document holds two dat
\* elements of one chunk ID.
C21_Original ==
  (rising /\ sink = <<>>) => \A s \in Srcs : OnePerChunk(hosts[s])

\* C21: with one decision at a time per host, each (source, fqdn) processed at
\* most once over all chunks, every host update written before the next
\* decision and the chunk IDs increasing, no host document holds two dat
\* elements of one chunk ID.
C21_OnePerChunkWhenPairsFresh ==
  (fresh /\ sink = <<>>) => \A s \in Srcs : OnePerChunk(hosts[s])

C21_Witness ==
  /\ fresh
  /\ sink = <<>>
  /\ runs = 2
  /\ everSeen = {<<"h1", "f1">>, <<"h1", "f2">>}
  /\ \E s \in Srcs :
       /\ Len(hosts[s]) = 2
       /\ hosts[s][1].cid = 0
       /\ hosts[s][2].cid = 1

\* the positions of the dat array that the last replace-lower write changed
Modified == {k \in 1..Len(lastWrite.before) : lastWrite.after[k] # lastWrite.before[k]}

\* the positions that, right before the last replace-lower write, held an
\* element of the write's chunk with a score not above the score written
Replaceable ==
  {k \in 1..Len(lastWrite.before) :
     /\ lastWrite.before[k].cid = lastWrite.info.query.elem.cid
     /\ lastWrite.before[k].max_beacon_proxy_score
          <= lastWrite.info.query.elem.max_beacon_proxy_score}

\* C22: whenever the writer applies a replace-lower update, however the
\* workers and the writes interleave, no stored score goes down: the write
\* changes at most one dat element, that element had the write's chunk and a
\* score not above the score written right before the write and becomes the
\* written element, and when no element qualifies at write time the document
\* stays as it was.
C22_LowerNeverLowers ==
  lastWrite # NoWrite =>
    /\ Len(lastWrite.after) = Len(lastWrite.before)
    /\ Cardinality(Modified) <= 1
    /\ Modified \subseteq Replaceable
    /\ \A k \in Modified : lastWrite.after[k] = lastWrite.info.query.elem
    /\ \A k \in 1..Len(lastWrite.before) :
         lastWrite.after[k].max_beacon_proxy_score
           >= lastWrite.before[k].max_beacon_proxy_score
    /\ Replaceable = {} => lastWrite.after = lastWrite.before

\* a replace-lower write decided on a lower element reaches the store after
\* another worker's write raised that element above its score: nothing changes
C22_Witness ==
  /\ lastWrite # NoWrite
  /\ Replaceable = {}
  /\ lastWrite.after = lastWrite.before
  /\ \E k \in 1..Len(lastWrite.before) :
       /\ lastWrite.before[k].cid = lastWrite.info.query.elem.cid
       /\ lastWrite.before[k].max_beacon_proxy_score
            > lastWrite.info.query.elem.max_beacon_proxy_score
  /\ hosts["h1"] = lastWrite.after

====
